---- MODULE Spec2Model ----
(***************************************************************************)
(* The summarization pipeline of src/src/llm_client.py (LLMClient), with   *)
(* the configuration loading of src/src/config.py and the part of          *)
(* src/main.py that constructs the client and calls summarize.             *)
(*                                                                         *)
(* Python strings are TLA+ strings, except the document text and its       *)
(* chunks, which are sequences of one-character strings so that slicing    *)
(* can be computed; Flat turns such a sequence into the string it spells.  *)
(* Optional values (None or a value) are sequences of length 0 or 1.       *)
(*                                                                         *)
(* The capability of the pipeline is LLMClient._get_chat_completion: one   *)
(* invocation of it is one capability call.  Its event-loop plumbing       *)
(* (lines 83-95) is inside that boundary and is not modelled; a call       *)
(* either returns the service's text, returns "" for a falsy response, or  *)
(* raises.                                                                 *)
(***************************************************************************)
EXTENDS Integers, Sequences, FiniteSets, TLC

(* ------------------------------ bounds --------------------------------- *)
\* longest document text
MaxLen == 3
\* largest max_chars_per_chunk written in config.json
MaxChars == 2
\* largest chunk_workers written in config.json
MaxWorkers == 3
\* iterations of _chunk's loop that are followed (the loop need not end)
MaxIter == 4

(* --------------------------- program constants ------------------------- *)
ConfigDefaultMaxChars == 12000
ConfigDefaultWorkers == 1
CtorDefaultMaxChars == 12000
CtorMinWorkers == 1

DEFAULT_SYSTEM_PROMPT == "You are a helpful assistant that writes concise, accurate summaries."
DEFAULT_USER_PROMPT == "Summarize the following content in 8-12 bullet points with headings and key takeaways."
SYNTHESIS_PROMPT == "You will receive multiple partial summaries ... Keep factual fidelity."

(* ------------------------------ Python --------------------------------- *)
Chars == {"a", " "}

Range(f) == {f[i] : i \in DOMAIN f}

Min(a, b) == IF a <= b THEN a ELSE b
Max(a, b) == IF a >= b THEN a ELSE b

\* x or d, for an integer x: 0 is the only falsy integer
PyOrInt(x, d) == IF x = 0 THEN d ELSE x

\* s or d, for a string s: "" is the only falsy string
PyOrStr(s, d) == IF s = "" THEN d ELSE s

\* an optional string or d: None and "" are falsy
PyOrOptStr(o, d) == IF o = <<>> THEN d ELSE PyOrStr(o[1], d)

\* a slice bound as Python normalises it: negative counts from the end,
\* then clamped to 0..len
PyClamp(i, n) == IF i < 0 THEN Max(i + n, 0) ELSE Min(i, n)

\* text[start:end]
PySlice(t, start, end) == SubSeq(t, PyClamp(start, Len(t)) + 1, PyClamp(end, Len(t)))

\* the string a sequence of characters spells
RECURSIVE Flat(_)
Flat(t) == IF t = <<>> THEN "" ELSE Head(t) \o Flat(Tail(t))

\* text.strip(): leading and trailing whitespace removed
RECURSIVE LStrip(_)
LStrip(t) == IF t # <<>> /\ Head(t) = " " THEN LStrip(Tail(t)) ELSE t
RECURSIVE RStrip(_)
RStrip(t) == IF t # <<>> /\ t[Len(t)] = " " THEN RStrip(SubSeq(t, 1, Len(t) - 1)) ELSE t
Strip(t) == RStrip(LStrip(t))

\* sep.join(parts)
RECURSIVE Join(_, _)
Join(sep, parts) ==
  IF parts = <<>> THEN ""
  ELSE IF Len(parts) = 1 THEN parts[1]
  ELSE parts[1] \o sep \o Join(sep, Tail(parts))

\* the flattening of a list of chunks: ''.join(chunks)
RECURSIVE Concat(_)
Concat(cs) == IF cs = <<>> THEN <<>> ELSE Head(cs) \o Concat(Tail(cs))

(* ---------------------------- configuration ---------------------------- *)
Texts == UNION {[1..n -> Chars] : n \in 0..MaxLen}

\* the "azure_openai" object of config.json, reduced to its two optional
\* integer keys (the four string settings are always taken as written)
OptionalKeys == {"max_chars_per_chunk", "chunk_workers"}
KeyValues(k) == IF k = "max_chars_per_chunk" THEN -1..MaxChars ELSE -1..MaxWorkers
AoaiDicts ==
  UNION {{d \in [K -> -1..Max(MaxChars, MaxWorkers)] : \A k \in K : d[k] \in KeyValues(k)} :
         K \in SUBSET OptionalKeys}

\* config.json: the azure_openai section is left out or written; the
\* summarize prompts are left out, so that summarize's defaults apply
RawConfigs ==
  {[azure_openai |-> a, prompts |-> <<>>] : a \in {<<>>} \cup {<<d>> : d \in AoaiDicts}}

\* aoai_dict with key k defaulted to v when missing
SetDefault(d, k, v) ==
  IF k \in DOMAIN d THEN d ELSE [x \in DOMAIN d \cup {k} |-> IF x = k THEN v ELSE d[x]]

\* AppConfig.load: the azure_openai settings and the prompts
AppConfigLoad(raw) ==
  [azure_openai |->
     IF raw.azure_openai # <<>>
     THEN LET d1 == SetDefault(raw.azure_openai[1], "max_chars_per_chunk", ConfigDefaultMaxChars)
              d2 == SetDefault(d1, "chunk_workers", ConfigDefaultWorkers)
          IN <<[max_chars_per_chunk |-> d2["max_chars_per_chunk"],
                chunk_workers |-> d2["chunk_workers"]]>>
     ELSE <<>>,
   prompts |-> raw.prompts]

\* LLMClient.__init__, past its two checks: the fields summarize reads
MaxCharsField(settings) == PyOrInt(settings.max_chars_per_chunk, CtorDefaultMaxChars)
ChunkWorkersField(settings) == Max(CtorMinWorkers, settings.chunk_workers)
NewLLMClient(settings) ==
  [max_chars_per_chunk |-> MaxCharsField(settings),
   chunk_workers |-> ChunkWorkersField(settings)]

\* a constructor that builds a client on the dataclass defaults when the
\* azure_openai section is missing
ConstructLenient(c, kernel) ==
  IF ~kernel
  THEN [error |-> "RuntimeError", llm |-> <<>>]
  ELSE [error |-> "",
        llm |-> <<NewLLMClient(IF c.azure_openai = <<>>
                               THEN [max_chars_per_chunk |-> ConfigDefaultMaxChars,
                                     chunk_workers |-> ConfigDefaultWorkers]
                               ELSE c.azure_openai[1])>>]

\* LLMClient(cfg), lines 38-50: the exception it raises ("" when none) and
\* the client it returns (none when it raises)
ConstructResult(c, kernel) ==
  IF c.azure_openai = <<>>
  THEN [error |-> "ValueError", llm |-> <<>>]
  ELSE IF ~kernel
  THEN [error |-> "RuntimeError", llm |-> <<>>]
  ELSE [error |-> "", llm |-> <<NewLLMClient(c.azure_openai[1])>>]

(* ------------------------------ requests ------------------------------- *)
Messages(system, user) ==
  <<[role |-> "system", content |-> system], [role |-> "user", content |-> user]>>

\* the single-chunk request (lines 122-125)
SingleMessages(sys, usr, chunk) ==
  Messages(sys, usr \o "\n\nCONTENT:\n" \o Flat(chunk))

\* the request _summarize_chunk builds for chunk idx of total (lines 130-133)
ChunkMessages(sys, usr, idx, chunk, total) ==
  Messages(sys, "Chunk " \o ToString(idx) \o "/" \o ToString(total) \o ". " \o usr
                \o "\n\nCONTENT:\n" \o Flat(chunk))

\* the synthesis request (lines 154-157)
SynthesisMessages(sys, partials) ==
  Messages(sys, SYNTHESIS_PROMPT \o "\n\nPARTIAL SUMMARIES:\n" \o Join("\n\n", partials))

\* the text the service answers a request with, when it answers with text
ServiceText(messages) == "<<reply to: " \o messages[2].content \o ">>"

\* what the service does with a request
Outcomes == {"text", "empty", "error"}

\* _get_chat_completion's return value for a response that is not an error:
\* str(response) if response else ""
ChatCompletionReturn(outcome, messages) ==
  IF outcome = "text" THEN ServiceText(messages) ELSE ""

(* ------------------------ _chunk, step by step -------------------------- *)
\* line 98: the text fits one chunk
FitsOneChunk(t, max_chars) == Len(t) <= max_chars

\* the window one character too wide
ChunkEndWide(n, s, step) == Min(n, s + step + 1)

\* line 104: end = min(len(text), start + step)
ChunkEnd(n, s, step) == Min(n, s + step)

\* the next window starting one character late
NextStartSkips(end) == end + 1

\* line 106: start = end
NextStart(end) == end

\* line 103: the loop goes on
ChunkLoopGoesOn(s, n) == s < n

(* ---------------------- dispatch, fan-in, pool -------------------------- *)
\* the single-chunk test never taken for a chunk list of one
IsSingleChunkNever(cs) == Len(cs) = 0

\* line 121
IsSingleChunk(cs) == Len(cs) = 1

\* line 137
EmptySlots(cs) == [i \in 1..Len(cs) |-> ""]

\* line 138
UsesPool(workers, cs) == workers > 1 /\ Len(cs) > 1

\* results kept in the order they arrive: the first slot still empty
StoreAtFirstFree(partials, idx, result) ==
  LET free == {i \in DOMAIN partials : partials[i] = ""}
  IN IF free = {} THEN partials
     ELSE [partials EXCEPT ![CHOOSE i \in free : \A j \in free : i <= j] = result]

\* results kept from the back: the last slot still empty
StoreAtLastFree(partials, idx, result) ==
  LET free == {i \in DOMAIN partials : partials[i] = ""}
  IN IF free = {} THEN partials
     ELSE [partials EXCEPT ![CHOOSE i \in free : \A j \in free : i >= j] = result]

\* a result written over every slot
StoreInAllSlots(partials, idx, result) == [i \in DOMAIN partials |-> result]

\* lines 143 and 147: partial_summaries[idx - 1] = result (slot idx of 1..N)
StoreResult(partials, idx, result) == [partials EXCEPT ![idx] = result]

\* line 135: return idx, result or ""
ChunkResult(idx, ret) == [idx |-> idx, text |-> PyOrStr(ret, "")]

\* an executor that starts no thread
SpawnsThreadNever(idle, threads, max_workers) == FALSE

\* a thread for every submitted task, whatever max_workers is
SpawnsThreadUnbounded(idle, threads, max_workers) == idle = 0

\* ThreadPoolExecutor._adjust_thread_count: a thread is started for a
\* submitted task when no idle token can be taken and fewer than
\* max_workers threads exist
SpawnsThread(idle, threads, max_workers) == idle = 0 /\ threads < max_workers

\* shutdown(wait=False): the with block is left at once
PoolNotJoined(queue, tasks) == TRUE

\* ThreadPoolExecutor.__exit__ is shutdown(wait=True): it returns when the
\* queue is drained and no worker runs a task
PoolJoined(queue, tasks) == queue = <<>> /\ tasks = {}

\* an empty response raised as an error, like a failed call
CallRaisesOnEmpty(outcome) == outcome # "text"

\* a failed call caught and answered with nothing
CallRaisesNever(outcome) == FALSE

\* line 79: the awaited service call raises instead of answering
CallRaises(outcome) == outcome = "error"

\* a task that catches its call's exception and returns an empty summary
FinishedFutureSwallowsError(idx, outcome, messages) ==
  [state |-> "FINISHED",
   result |-> <<[idx |-> idx,
                 text |-> IF outcome = "text" THEN ServiceText(messages) ELSE ""]>>,
   exception |-> FALSE]

\* the future of a task whose capability call had this outcome: it holds
\* _summarize_chunk's return value, or the exception the call raised
FinishedFuture(idx, outcome, messages) ==
  IF CallRaises(outcome)
  THEN [state |-> "FINISHED", result |-> <<>>, exception |-> TRUE]
  ELSE [state |-> "FINISHED",
        result |-> <<ChunkResult(idx, ChatCompletionReturn(outcome, messages))>>,
        exception |-> FALSE]

\* line 142: fut.result() raises the task's exception
ResultRaises(fut) == fut.exception

\* the loop sending the same chunk again
NextIndexStays(idx) == idx

\* the loop taking every other chunk
NextIndexSkips(idx) == idx + 2

\* line 145: the loop takes the next chunk
NextIndex(idx) == idx + 1

(* ------------------------------- state ---------------------------------- *)
VARIABLES
  pc,                \* where the main thread is
  raw,               \* config.json as written
  kernel_ok,         \* the semantic-kernel import succeeded
  text,              \* read_text_from_file(dest)
  cfg,               \* AppConfig.load's result (optional)
  llm,               \* the LLMClient (optional)
  system_prompt,     \* summarize's local, after defaulting
  user_prompt,       \* summarize's local, after defaulting
  chunks,            \* _chunk's list, then summarize's local
  start,             \* _chunk's local
  partial_summaries, \* summarize's local
  futures,           \* the list built at line 140
  work_queue,        \* the executor's queue of submitted argument tuples
  num_threads,       \* the executor's worker threads
  idle_sem,          \* the executor's idle semaphore
  running,           \* the tasks worker threads are executing
  yielded,           \* the futures as_completed has handed out, in that order
  seq_idx,           \* idx of the loop at line 145
  pending_exc,       \* an exception is propagating out of the with block
  calls,             \* every capability call issued, in order, with its outcome
  result,            \* summarize's return value (optional)
  error              \* the exception main catches, "" when none

vars == <<pc, raw, kernel_ok, text, cfg, llm, system_prompt, user_prompt, chunks, start,
          partial_summaries, futures, work_queue, num_threads, idle_sem, running,
          yielded, seq_idx, pending_exc, calls, result, error>>

config_vars == <<raw, kernel_ok, text, cfg>>
prompt_vars == <<system_prompt, user_prompt>>
pool_vars == <<futures, work_queue, num_threads, idle_sem, running, yielded, pending_exc>>

Locals ==
  /\ cfg = <<>>
  /\ llm = <<>>
  /\ system_prompt = ""
  /\ user_prompt = ""
  /\ chunks = <<>>
  /\ start = 0
  /\ partial_summaries = <<>>
  /\ futures = <<>>
  /\ work_queue = <<>>
  /\ num_threads = 0
  /\ idle_sem = 0
  /\ running = {}
  /\ yielded = <<>>
  /\ seq_idx = 0
  /\ pending_exc = FALSE
  /\ calls = <<>>
  /\ result = <<>>
  /\ error = ""

\* main is about to load config.json and has a downloaded document
Init ==
  /\ pc = "load"
  /\ raw \in RawConfigs
  /\ kernel_ok \in BOOLEAN
  /\ text \in Texts
  /\ Locals

(* ------------------------- main, up to summarize ------------------------ *)
\* main: cfg = AppConfig.load(path)
LoadConfig ==
  /\ pc = "load"
  /\ cfg' = <<AppConfigLoad(raw)>>
  /\ pc' = "read"
  /\ UNCHANGED <<raw, kernel_ok, text, llm, prompt_vars, chunks, start, partial_summaries,
                 pool_vars, seq_idx, calls, result, error>>

\* main lines 123-126: a text that strips to nothing is not summarized
ReadText ==
  /\ pc = "read"
  /\ pc' = IF Strip(text) = <<>> THEN "end_empty" ELSE "construct"
  /\ UNCHANGED <<config_vars, llm, prompt_vars, chunks, start, partial_summaries,
                 pool_vars, seq_idx, calls, result, error>>

\* main line 127: llm = LLMClient(cfg)
Construct ==
  /\ pc = "construct"
  /\ LET r == ConstructResult(cfg[1], kernel_ok)
     IN /\ error' = r.error
        /\ llm' = r.llm
        /\ pc' = IF r.error # "" THEN "raised" ELSE "summarize"
  /\ UNCHANGED <<config_vars, prompt_vars, chunks, start, partial_summaries,
                 pool_vars, seq_idx, calls, result>>

\* main lines 129-134 and summarize lines 115-119: the prompts of the
\* configuration, defaulted, and the call of _chunk
SummarizeEntry ==
  /\ pc = "summarize"
  /\ LET p == cfg[1].prompts
         sys == IF p = <<>> THEN <<>> ELSE <<p[1].system>>
         usr == IF p = <<>> THEN <<>> ELSE <<p[1].user>>
     IN /\ system_prompt' = PyOrOptStr(sys, DEFAULT_SYSTEM_PROMPT)
        /\ user_prompt' = PyOrOptStr(usr, DEFAULT_USER_PROMPT)
  /\ pc' = "chunk"
  /\ UNCHANGED <<config_vars, llm, chunks, start, partial_summaries,
                 pool_vars, seq_idx, calls, result, error>>

(* -------------------------------- _chunk -------------------------------- *)
\* lines 98-102
ChunkEntry ==
  /\ pc = "chunk"
  /\ IF FitsOneChunk(text, llm[1].max_chars_per_chunk)
     THEN /\ chunks' = <<text>>
          /\ pc' = "branch"
     ELSE /\ chunks' = <<>>
          /\ pc' = "chunk_loop"
  /\ start' = 0
  /\ UNCHANGED <<config_vars, llm, prompt_vars, partial_summaries,
                 pool_vars, seq_idx, calls, result, error>>

\* lines 103-106: one iteration of the loop
ChunkStep ==
  /\ pc = "chunk_loop"
  /\ ChunkLoopGoesOn(start, Len(text))
  /\ Len(chunks) < MaxIter
  /\ LET end == ChunkEnd(Len(text), start, llm[1].max_chars_per_chunk)
     IN /\ chunks' = Append(chunks, PySlice(text, start, end))
        /\ start' = NextStart(end)
  /\ UNCHANGED <<pc, config_vars, llm, prompt_vars, partial_summaries,
                 pool_vars, seq_idx, calls, result, error>>

\* lines 103 and 107: the loop ends and the list is returned
ChunkReturn ==
  /\ pc = "chunk_loop"
  /\ ~ChunkLoopGoesOn(start, Len(text))
  /\ pc' = "branch"
  /\ UNCHANGED <<config_vars, llm, prompt_vars, chunks, start, partial_summaries,
                 pool_vars, seq_idx, calls, result, error>>

(* ------------------------ summarize, after _chunk ----------------------- *)
Call(kind, idx, messages) ==
  [kind |-> kind, idx |-> idx, messages |-> messages, outcome |-> "inflight"]

\* the call log with the outcome of call j recorded
Answered(log, j, outcome) == [log EXCEPT ![j].outcome = outcome]

\* the position in the log of the call in flight that a main-thread wait is on
MainCallPos == Len(calls)

\* lines 121-126: one chunk, one call with the plain user prompt
SingleStart ==
  /\ pc = "branch"
  /\ IsSingleChunk(chunks)
  /\ calls' = Append(calls, Call("single", 1, SingleMessages(system_prompt, user_prompt, chunks[1])))
  /\ pc' = "single_wait"
  /\ UNCHANGED <<config_vars, llm, prompt_vars, chunks, start, partial_summaries,
                 pool_vars, seq_idx, result, error>>

\* line 126: the call returns, and summarize returns what it returned, or
\* the call raises
SingleReturn ==
  /\ pc = "single_wait"
  /\ \E o \in Outcomes :
       /\ calls' = Answered(calls, MainCallPos, o)
       /\ IF CallRaises(o)
          THEN /\ error' = "CapabilityError"
               /\ pc' = "raised"
               /\ result' = result
          ELSE /\ result' = <<ChatCompletionReturn(o, calls[MainCallPos].messages)>>
               /\ pc' = "returned"
               /\ error' = error
  /\ UNCHANGED <<config_vars, llm, prompt_vars, chunks, start, partial_summaries,
                 pool_vars, seq_idx>>

\* lines 137-139: the slots, and the pool when chunk_workers > 1
EnterPool ==
  /\ pc = "branch"
  /\ ~IsSingleChunk(chunks)
  /\ UsesPool(llm[1].chunk_workers, chunks)
  /\ partial_summaries' = EmptySlots(chunks)
  /\ pc' = "submit"
  /\ UNCHANGED <<config_vars, llm, prompt_vars, chunks, start,
                 pool_vars, seq_idx, calls, result, error>>

\* lines 137, 138 and 144-145: the slots, and the loop when there is no pool
EnterSequential ==
  /\ pc = "branch"
  /\ ~IsSingleChunk(chunks)
  /\ ~UsesPool(llm[1].chunk_workers, chunks)
  /\ partial_summaries' = EmptySlots(chunks)
  /\ seq_idx' = 1
  /\ pc' = "seq"
  /\ UNCHANGED <<config_vars, llm, prompt_vars, chunks, start,
                 pool_vars, calls, result, error>>

(* ------------------------------ the pool -------------------------------- *)
PendingFuture == [state |-> "PENDING", result |-> <<>>, exception |-> FALSE]

\* line 140: ex.submit(_summarize_chunk, (i, c, len(chunks))) for the next chunk
Submit ==
  /\ pc = "submit"
  /\ LET i == Len(futures) + 1
     IN /\ futures' = Append(futures, PendingFuture)
        /\ work_queue' = Append(work_queue, <<i, chunks[i], Len(chunks)>>)
        /\ IF idle_sem > 0
           THEN /\ idle_sem' = idle_sem - 1
                /\ num_threads' = num_threads
           ELSE /\ idle_sem' = idle_sem
                /\ num_threads' = IF SpawnsThread(idle_sem, num_threads, llm[1].chunk_workers)
                                  THEN num_threads + 1 ELSE num_threads
        /\ pc' = IF i = Len(chunks) THEN "collect" ELSE "submit"
  /\ UNCHANGED <<config_vars, llm, prompt_vars, chunks, start, partial_summaries,
                 running, yielded, seq_idx, pending_exc, calls, result, error>>

\* a worker thread that runs no task takes the oldest submitted task and
\* runs _summarize_chunk up to its capability call (lines 129-134)
TaskStart ==
  /\ work_queue # <<>>
  /\ Cardinality(running) < num_threads
  /\ LET args == Head(work_queue)
         msgs == ChunkMessages(system_prompt, user_prompt, args[1], args[2], args[3])
     IN /\ futures' = [futures EXCEPT ![args[1]].state = "RUNNING"]
        /\ running' = running \cup {[idx |-> args[1], pos |-> Len(calls) + 1]}
        /\ calls' = Append(calls, Call("chunk", args[1], msgs))
  /\ work_queue' = Tail(work_queue)
  /\ UNCHANGED <<pc, config_vars, llm, prompt_vars, chunks, start, partial_summaries,
                 num_threads, idle_sem, yielded, seq_idx, pending_exc, result, error>>

\* a task's capability call returns or raises (lines 134-135); the future
\* is finished and the worker thread is free again
TaskReturn ==
  /\ \E t \in running, o \in Outcomes :
       /\ calls' = Answered(calls, t.pos, o)
       /\ futures' = [futures EXCEPT ![t.idx] = FinishedFuture(t.idx, o, calls[t.pos].messages)]
       /\ running' = running \ {t}
  /\ idle_sem' = idle_sem + 1
  /\ UNCHANGED <<pc, config_vars, llm, prompt_vars, chunks, start, partial_summaries,
                 work_queue, num_threads, yielded, seq_idx, pending_exc, result, error>>

\* lines 141-143: as_completed hands out a finished future, in any order
\* among the finished ones, and its result is stored
CollectResult ==
  /\ pc = "collect"
  /\ \E k \in (1..Len(futures)) \ Range(yielded) :
       /\ futures[k].state = "FINISHED"
       /\ ~ResultRaises(futures[k])
       /\ partial_summaries' =
            StoreResult(partial_summaries, futures[k].result[1].idx, futures[k].result[1].text)
       /\ yielded' = Append(yielded, k)
  /\ UNCHANGED <<pc, config_vars, llm, prompt_vars, chunks, start,
                 futures, work_queue, num_threads, idle_sem, running,
                 seq_idx, pending_exc, calls, result, error>>

\* line 142: fut.result() raises, and the exception leaves the loop
CollectException ==
  /\ pc = "collect"
  /\ \E k \in (1..Len(futures)) \ Range(yielded) :
       /\ futures[k].state = "FINISHED"
       /\ ResultRaises(futures[k])
       /\ yielded' = Append(yielded, k)
  /\ pending_exc' = TRUE
  /\ pc' = "pool_exit"
  /\ UNCHANGED <<config_vars, llm, prompt_vars, chunks, start, partial_summaries,
                 futures, work_queue, num_threads, idle_sem, running,
                 seq_idx, calls, result, error>>

\* line 141: as_completed is exhausted
CollectDone ==
  /\ pc = "collect"
  /\ Range(yielded) = 1..Len(futures)
  /\ pc' = "pool_exit"
  /\ UNCHANGED <<config_vars, llm, prompt_vars, chunks, start, partial_summaries,
                 pool_vars, seq_idx, calls, result, error>>

\* line 139: the with block is left; the executor is shut down and its
\* threads are joined, the as_completed iterator is gone, then a pending
\* exception goes on to the caller
PoolExit ==
  /\ pc = "pool_exit"
  /\ PoolJoined(work_queue, running)
  /\ num_threads' = 0
  /\ yielded' = <<>>
  /\ IF pending_exc
     THEN /\ error' = "CapabilityError"
          /\ pc' = "raised"
     ELSE /\ error' = error
          /\ pc' = "synth"
  /\ UNCHANGED <<config_vars, llm, prompt_vars, chunks, start, partial_summaries,
                 futures, work_queue, idle_sem, running,
                 seq_idx, pending_exc, calls, result>>

(* --------------------------- the sequential loop ------------------------ *)
\* lines 145-146 and 129-134: the call for chunk seq_idx
SeqStart ==
  /\ pc = "seq"
  /\ seq_idx <= Len(chunks)
  /\ calls' = Append(calls, Call("chunk", seq_idx,
                 ChunkMessages(system_prompt, user_prompt, seq_idx, chunks[seq_idx], Len(chunks))))
  /\ pc' = "seq_wait"
  /\ UNCHANGED <<config_vars, llm, prompt_vars, chunks, start, partial_summaries,
                 pool_vars, seq_idx, result, error>>

\* lines 134-135 and 146-147: the call returns and its result is stored,
\* or it raises
SeqReturn ==
  /\ pc = "seq_wait"
  /\ \E o \in Outcomes :
       /\ calls' = Answered(calls, MainCallPos, o)
       /\ IF CallRaises(o)
          THEN /\ error' = "CapabilityError"
               /\ pc' = "raised"
               /\ UNCHANGED <<partial_summaries, seq_idx>>
          ELSE LET r == ChunkResult(seq_idx, ChatCompletionReturn(o, calls[MainCallPos].messages))
               IN /\ partial_summaries' = StoreResult(partial_summaries, seq_idx, r.text)
                  /\ seq_idx' = NextIndex(seq_idx)
                  /\ pc' = "seq"
                  /\ error' = error
  /\ UNCHANGED <<config_vars, llm, prompt_vars, chunks, start, pool_vars, result>>

\* line 145: the loop is over
SeqDone ==
  /\ pc = "seq"
  /\ seq_idx > Len(chunks)
  /\ pc' = "synth"
  /\ UNCHANGED <<config_vars, llm, prompt_vars, chunks, start, partial_summaries,
                 pool_vars, seq_idx, calls, result, error>>

(* ------------------------------ synthesis ------------------------------- *)
\* lines 149-158: the synthesis request is built and sent
SynthStart ==
  /\ pc = "synth"
  /\ calls' = Append(calls, Call("synthesis", 0, SynthesisMessages(system_prompt, partial_summaries)))
  /\ pc' = "synth_wait"
  /\ UNCHANGED <<config_vars, llm, prompt_vars, chunks, start, partial_summaries,
                 pool_vars, seq_idx, result, error>>

\* line 158: the synthesis call returns, and summarize returns what it
\* returned, or it raises
SynthReturn ==
  /\ pc = "synth_wait"
  /\ \E o \in Outcomes :
       /\ calls' = Answered(calls, MainCallPos, o)
       /\ IF CallRaises(o)
          THEN /\ error' = "CapabilityError"
               /\ pc' = "raised"
               /\ result' = result
          ELSE /\ result' = <<ChatCompletionReturn(o, calls[MainCallPos].messages)>>
               /\ pc' = "returned"
               /\ error' = error
  /\ UNCHANGED <<config_vars, llm, prompt_vars, chunks, start, partial_summaries,
                 pool_vars, seq_idx>>

(* --------------------------- main, afterwards --------------------------- *)
\* main lines 135-141: the summary is printed
MainPrintSummary ==
  /\ pc = "returned"
  /\ pc' = "end_ok"
  /\ UNCHANGED <<config_vars, llm, prompt_vars, chunks, start, partial_summaries,
                 pool_vars, seq_idx, calls, result, error>>

\* main lines 157-158: "Summarization failed"
MainCatch ==
  /\ pc = "raised"
  /\ pc' = "end_failed"
  /\ UNCHANGED <<config_vars, llm, prompt_vars, chunks, start, partial_summaries,
                 pool_vars, seq_idx, calls, result, error>>

Next ==
  \/ LoadConfig
  \/ ReadText
  \/ Construct
  \/ SummarizeEntry
  \/ ChunkEntry
  \/ ChunkStep
  \/ ChunkReturn
  \/ SingleStart
  \/ SingleReturn
  \/ EnterPool
  \/ EnterSequential
  \/ Submit
  \/ TaskStart
  \/ TaskReturn
  \/ CollectResult
  \/ CollectException
  \/ CollectDone
  \/ PoolExit
  \/ SeqStart
  \/ SeqReturn
  \/ SeqDone
  \/ SynthStart
  \/ SynthReturn
  \/ MainPrintSummary
  \/ MainCatch

Spec == Init /\ [][Next]_vars

(* ------------------- summarize, fairly scheduled ------------------------ *)
\* main is about to call summarize (line 134) on a text of any length from
\* 1 to MaxLen, with a client built from any settings whose
\* max_chars_per_chunk and chunk_workers are written and positive; no branch
\* of summarize reads a character of the text, so one character stands for all
SummarizeInit ==
  /\ pc = "summarize"
  /\ kernel_ok = TRUE
  /\ text \in {t \in Texts : t # <<>> /\ Range(t) = {"a"}}
  /\ \E m \in 1..MaxChars, w \in 1..MaxWorkers :
       /\ raw = [azure_openai |-> <<[max_chars_per_chunk |-> m, chunk_workers |-> w]>>,
                 prompts |-> <<>>]
       /\ cfg = <<AppConfigLoad(raw)>>
       /\ llm = <<ConstructResult(cfg[1], kernel_ok).llm[1]>>
  /\ system_prompt = ""
  /\ user_prompt = ""
  /\ chunks = <<>>
  /\ start = 0
  /\ partial_summaries = <<>>
  /\ futures = <<>>
  /\ work_queue = <<>>
  /\ num_threads = 0
  /\ idle_sem = 0
  /\ running = {}
  /\ yielded = <<>>
  /\ seq_idx = 0
  /\ pending_exc = FALSE
  /\ calls = <<>>
  /\ result = <<>>
  /\ error = ""

\* the steps of the thread that called summarize; those that wait for a
\* capability call (SingleReturn, SeqReturn, SynthReturn) are the call
\* returning or failing
SummarizeThread ==
  \/ SummarizeEntry
  \/ ChunkEntry
  \/ ChunkStep
  \/ ChunkReturn
  \/ SingleStart
  \/ SingleReturn
  \/ EnterPool
  \/ EnterSequential
  \/ Submit
  \/ CollectResult
  \/ CollectException
  \/ CollectDone
  \/ PoolExit
  \/ SeqStart
  \/ SeqReturn
  \/ SeqDone
  \/ SynthStart
  \/ SynthReturn

SummarizeNext ==
  \/ SummarizeThread
  \/ TaskStart
  \/ TaskReturn

\* the calling thread runs while it is not blocked, a worker thread that is
\* free takes a queued task, and every capability call returns or fails
LiveSpec ==
  /\ SummarizeInit /\ [][SummarizeNext]_vars
  /\ WF_vars(SummarizeThread)
  /\ WF_vars(TaskStart)
  /\ WF_vars(TaskReturn)

(* ----------------------- _chunk as a function --------------------------- *)
\* _chunk is about to run on any text, in a client whose max_chars_per_chunk
\* is any positive value up to one more than the longest text
ChunkInit ==
  /\ pc = "chunk"
  /\ raw = [azure_openai |-> <<>>, prompts |-> <<>>]
  /\ kernel_ok = TRUE
  /\ text \in Texts
  /\ cfg = <<>>
  /\ \E m \in 1..(MaxLen + 1) : llm = <<[max_chars_per_chunk |-> m, chunk_workers |-> CtorMinWorkers]>>
  /\ system_prompt = ""
  /\ user_prompt = ""
  /\ chunks = <<>>
  /\ start = 0
  /\ partial_summaries = <<>>
  /\ futures = <<>>
  /\ work_queue = <<>>
  /\ num_threads = 0
  /\ idle_sem = 0
  /\ running = {}
  /\ yielded = <<>>
  /\ seq_idx = 0
  /\ pending_exc = FALSE
  /\ calls = <<>>
  /\ result = <<>>
  /\ error = ""

ChunkNext ==
  \/ ChunkEntry
  \/ ChunkStep
  \/ ChunkReturn

SpecChunk == ChunkInit /\ [][ChunkNext]_vars


(* ======================================================================= *)
(*                               properties                                *)
(* ======================================================================= *)
CallsOfKind(kind) == {j \in 1..Len(calls) : calls[j].kind = kind}
ChunkCallsFor(k) == {j \in CallsOfKind("chunk") : calls[j].idx = k}
FailedCalls == {j \in 1..Len(calls) : calls[j].outcome = "error"}
InFlightChunkCalls == {j \in CallsOfKind("chunk") : calls[j].outcome = "inflight"}
PoolStates == {"submit", "collect", "pool_exit"}
AfterDispatch == {"synth", "synth_wait", "returned", "end_ok"}
SummarizeLeft == {"returned", "raised", "end_ok", "end_failed"}
\* what the call of log position j returned
ReturnOf(j) == ChatCompletionReturn(calls[j].outcome, calls[j].messages)
\* the request built from chunk k
RequestFor(k) == ChunkMessages(system_prompt, user_prompt, k, chunks[k], Len(chunks))

\* dispatch is over without an exception: the fan-in loop is exhausted, or
\* the synthesis request is about to be built, or it has just been sent
FanInComplete ==
  \/ pc = "pool_exit" /\ ~pending_exc
  \/ pc \in {"synth", "synth_wait"}

\* C1: when dispatch on N >= 2 chunks is over and the synthesis request is
\* built, partial_summaries has N slots and slot k holds what the call whose
\* request was built from chunk k returned, in sequential and in pooled
\* dispatch and in every order of completion; the synthesis request sent is
\* built from exactly these slots.
C1_PartialsInChunkOrder ==
  (FanInComplete /\ Len(chunks) >= 2) =>
    /\ Len(partial_summaries) = Len(chunks)
    /\ \A k \in 1..Len(chunks) :
         \E j \in ChunkCallsFor(k) :
           /\ calls[j].messages = RequestFor(k)
           /\ partial_summaries[k] = ReturnOf(j)
    /\ pc = "synth_wait" =>
         calls[Len(calls)].messages =
           SynthesisMessages(system_prompt,
             [k \in 1..Len(chunks) |-> ReturnOf(CHOOSE j \in ChunkCallsFor(k) : TRUE)])

\* three pooled tasks handed out by as_completed in reverse order of
\* submission, all three with text, and the fan-in loop exhausted
C1_Witness ==
  /\ FanInComplete
  /\ yielded = <<3, 2, 1>>
  /\ \A k \in 1..3 : partial_summaries[k] = ServiceText(RequestFor(k))

\* C2: once the capability call of a chunk has failed, no synthesis call is
\* ever issued and summarize never returns a value: the invocation is still
\* in its pool (where it can always take a step) or has raised the
\* capability's error to main.
C2_ChunkFailureFailsSummarize ==
  (\E j \in CallsOfKind("chunk") : calls[j].outcome = "error") =>
    /\ CallsOfKind("synthesis") = {}
    /\ result = <<>>
    /\ pc \in PoolStates \cup {"raised", "end_failed"}
    /\ pc \in {"raised", "end_failed"} => error = "CapabilityError"
    /\ pc \in PoolStates => ENABLED Next

\* a pooled run of three chunks in which the second chunk's call failed and
\* the other two answered, and summarize has raised
C2_Witness ==
  /\ pc = "raised"
  /\ Len(futures) = 3
  /\ \E j \in ChunkCallsFor(2) : calls[j].outcome = "error"
  /\ \A k \in {1, 3} : \E j \in ChunkCallsFor(k) : calls[j].outcome = "text"

\* C3: a summarize whose chunk list has one chunk issues one capability
\* call, built from the plain user prompt and that chunk, no synthesis call
\* and no chunk-prefixed call; it submits nothing to a pool and starts no
\* worker thread; the value it returns is what that call returned.
C3_SingleChunk ==
  (Len(chunks) = 1 /\ pc \notin {"chunk", "chunk_loop", "branch"}) =>
    /\ Len(calls) = 1
    /\ calls[1].kind = "single"
    /\ calls[1].messages = SingleMessages(system_prompt, user_prompt, chunks[1])
    /\ pc \notin PoolStates
    /\ futures = <<>> /\ work_queue = <<>> /\ num_threads = 0 /\ running = {}
    /\ pc \in {"single_wait", "returned", "raised", "end_ok", "end_failed"}
    /\ pc \in {"returned", "end_ok"} => result = <<ReturnOf(1)>>

\* a one-chunk summarize in a client with chunk_workers > 1 has returned the
\* text of its only call
C3_Witness ==
  /\ pc = "returned"
  /\ Len(chunks) = 1
  /\ llm[1].chunk_workers > 1
  /\ result = <<ServiceText(SingleMessages(system_prompt, user_prompt, text))>>

\* C4: for every text and every max_chars_per_chunk > 0, the chunks appended
\* so far are consecutive slices that spell the text up to start, and the
\* list _chunk returns spells the whole text.
C4_LosslessPartition ==
  /\ pc = "chunk_loop" => (start \in 0..Len(text) /\ Concat(chunks) = SubSeq(text, 1, start))
  /\ pc = "branch" => Concat(chunks) = text

\* _chunk has returned three chunks
C4_Witness ==
  /\ pc = "branch"
  /\ Len(chunks) = 3
  /\ Concat(chunks) = text

CeilDiv(a, b) == (a + b - 1) \div b

\* C5: for a text of length L and max_chars_per_chunk M > 0, _chunk returns
\* the one chunk <<text>> when L <= M (the empty text included), and
\* otherwise ceil(L/M) chunks, all of length M but the last, which has
\* length L mod M, or M when M divides L.
C5_ChunkCountAndSizes ==
  pc = "branch" =>
    LET L == Len(text)
        M == llm[1].max_chars_per_chunk
        N == Len(chunks)
    IN IF L <= M
       THEN chunks = <<text>>
       ELSE /\ N = CeilDiv(L, M)
            /\ \A k \in 1..(N - 1) : Len(chunks[k]) = M
            /\ Len(chunks[N]) = IF L % M = 0 THEN M ELSE L % M

\* _chunk has returned for a text longer than M whose length M does not
\* divide: the last chunk is the shorter one
C5_Witness ==
  /\ pc = "branch"
  /\ Len(text) > llm[1].max_chars_per_chunk
  /\ Len(text) % llm[1].max_chars_per_chunk # 0
  /\ Len(chunks[Len(chunks)]) < llm[1].max_chars_per_chunk

\* C6: while the pool exists, the chunk capability calls in flight are at
\* most chunk_workers, and at most the number of chunks; so are the pool's
\* threads.
C6_BoundedInFlight ==
  pc \in PoolStates =>
    /\ Cardinality(InFlightChunkCalls) <= Min(llm[1].chunk_workers, Len(chunks))
    /\ Cardinality(InFlightChunkCalls) = Cardinality(running)
    /\ Cardinality(running) <= num_threads
    /\ num_threads <= Min(llm[1].chunk_workers, Len(chunks))

\* two workers, three chunks: two calls are in flight and the third task
\* waits in the queue
C6_Witness ==
  /\ pc \in PoolStates
  /\ llm[1].chunk_workers = 2
  /\ Cardinality(InFlightChunkCalls) = 2
  /\ Len(work_queue) = 1

\* C7: when summarize has left pooled dispatch, to build the synthesis
\* request or with a chunk's exception, every submitted task has finished:
\* nothing is queued, no worker runs a task, no call is in flight.
C7_PoolJoinedBeforeLeaving ==
  (futures # <<>> /\ pc \notin PoolStates) =>
    /\ Len(futures) = Len(chunks)
    /\ \A k \in 1..Len(futures) : futures[k].state = "FINISHED"
    /\ work_queue = <<>>
    /\ running = {}
    /\ InFlightChunkCalls = {}

\* summarize has raised the exception of the first future handed out (no
\* result was stored), and the two other tasks, never handed out, have
\* finished all the same, with text
C7_Witness ==
  /\ pc = "raised"
  /\ Len(futures) = 3
  /\ \A k \in 1..3 : partial_summaries[k] = ""
  /\ Cardinality({k \in 1..3 : futures[k].state = "FINISHED" /\ ~futures[k].exception}) = 2

\* C8 as claimed: a chunk call whose reply is empty fails summarize, and its
\* empty text never reaches a synthesis call.
C8_EmptyReplyFails ==
  (\E j \in CallsOfKind("chunk") : calls[j].outcome = "empty") =>
    /\ CallsOfKind("synthesis") = {}
    /\ pc \notin AfterDispatch

\* C8, amended: an empty reply is no failure. summarize raises a capability
\* error only when some call raised; a chunk call whose reply is empty
\* returns "", which is stored in the chunk's slot, and the synthesis
\* request is built from the slots with that empty string among them.
C8_EmptyReplyIsStored ==
  /\ error = "CapabilityError" => FailedCalls # {}
  /\ (pc \in {"synth", "synth_wait"} /\ Len(chunks) >= 2) =>
       \A j \in CallsOfKind("chunk") :
         calls[j].outcome = "empty" => partial_summaries[calls[j].idx] = ""
  /\ (pc = "synth_wait" /\ Len(chunks) >= 2) =>
       calls[Len(calls)].messages = SynthesisMessages(system_prompt, partial_summaries)

\* the synthesis call is in flight although the first chunk's reply was empty
C8_Witness ==
  /\ pc = "synth_wait"
  /\ \E j \in ChunkCallsFor(1) : calls[j].outcome = "empty"
  /\ partial_summaries[1] = ""

\* C9: no call is issued twice: at most one call per chunk, at most one
\* synthesis call, at most one single-chunk call; after a failed call no
\* value is returned and what main catches is the capability's error; a
\* summarize of N >= 2 chunks that has returned issued the N chunk calls,
\* one per chunk, and then the synthesis call, N + 1 calls in all.
C9_NoRetry ==
  /\ \A k \in 1..Len(chunks) : Cardinality(ChunkCallsFor(k)) <= 1
  /\ \A j \in CallsOfKind("chunk") : calls[j].idx \in 1..Len(chunks)
  /\ Cardinality(CallsOfKind("synthesis")) <= 1
  /\ Cardinality(CallsOfKind("single")) <= 1
  /\ FailedCalls # {} =>
       /\ result = <<>>
       /\ pc \in PoolStates \cup {"raised", "end_failed"}
       /\ pc \in {"raised", "end_failed"} => error = "CapabilityError"
  /\ (pc \in {"returned", "end_ok"} /\ Len(chunks) >= 2) =>
       /\ Len(calls) = Len(chunks) + 1
       /\ \A j \in 1..Len(chunks) : calls[j].kind = "chunk"
       /\ calls[Len(calls)].kind = "synthesis"

\* a sequential summarize of three chunks has returned after four calls
C9_Witness ==
  /\ pc = "returned"
  /\ Len(chunks) = 3
  /\ futures = <<>>
  /\ Len(calls) = 4

\* C10: every constructed LLMClient has max_chars_per_chunk > 0 and
\* chunk_workers >= 1, and the values of keys left out of config.json are
\* 12000 and 1.
C10_ClientFieldsValid ==
  llm # <<>> =>
    /\ llm[1].max_chars_per_chunk > 0
    /\ llm[1].chunk_workers >= 1
    /\ "max_chars_per_chunk" \notin DOMAIN raw.azure_openai[1] =>
         llm[1].max_chars_per_chunk = ConfigDefaultMaxChars
    /\ "chunk_workers" \notin DOMAIN raw.azure_openai[1] =>
         llm[1].chunk_workers = ConfigDefaultWorkers


\* C11: in a run whose config.json has no azure_openai settings no client
\* ever exists, _chunk is never entered and no capability call is issued;
\* the constructor raises ValueError, which is what main catches.
C11_MissingSettingsFailEarly ==
  raw.azure_openai = <<>> =>
    /\ llm = <<>>
    /\ chunks = <<>> /\ start = 0
    /\ calls = <<>>
    /\ pc \in {"load", "read", "construct", "raised", "end_failed", "end_empty"}
    /\ pc \in {"raised", "end_failed"} => error = "ValueError"

\* the constructor has raised on a configuration without azure_openai, for a
\* text that would have been summarized
C11_Witness ==
  /\ pc = "raised"
  /\ raw.azure_openai = <<>>
  /\ error = "ValueError"
  /\ Strip(text) # <<>>
  /\ calls = <<>>


\* summarize is past its branch in a client without a pool (chunk_workers
\* is 1) and on more than one chunk
SequentialDispatch ==
  /\ llm # <<>>
  /\ llm[1].chunk_workers <= 1
  /\ Len(chunks) > 1
  /\ pc \in {"seq", "seq_wait", "synth", "synth_wait", "returned", "raised", "end_ok", "end_failed"}

\* C12: in sequential dispatch the j-th capability call issued is the call
\* for chunk j, built from chunk j; every call but the last issued has
\* returned or raised, so at most one call is in flight; no pool task exists;
\* and when the loop is over all N chunk calls have been issued.
C12_SequentialInOrder ==
  SequentialDispatch =>
    /\ futures = <<>> /\ work_queue = <<>> /\ running = {} /\ num_threads = 0
    /\ \A j \in CallsOfKind("chunk") :
         /\ calls[j].idx = j
         /\ calls[j].messages = RequestFor(j)
    /\ \A j \in 1..(Len(calls) - 1) : calls[j].outcome # "inflight"
    /\ Cardinality({j \in 1..Len(calls) : calls[j].outcome = "inflight"}) <= 1
    /\ pc \in {"seq", "seq_wait"} =>
         /\ Len(calls) = (IF pc = "seq" THEN seq_idx - 1 ELSE seq_idx)
         /\ CallsOfKind("chunk") = 1..Len(calls)
    /\ pc \in {"synth", "synth_wait"} => CallsOfKind("chunk") = 1..Len(chunks)

\* the call for the third chunk is in flight after the calls for the first
\* two have returned
C12_Witness ==
  /\ SequentialDispatch
  /\ pc = "seq_wait"
  /\ Len(calls) = 3
  /\ calls[3].idx = 3
  /\ calls[3].outcome = "inflight"
  /\ \A j \in {1, 2} : calls[j].outcome \in {"text", "empty"}


\* the capability call of some chunk has failed
ChunkCallFailed == \E j \in CallsOfKind("chunk") : calls[j].outcome = "error"

\* C13 as claimed: once a chunk's capability call has failed, no capability
\* call is started any more, in sequential and in pooled dispatch.
C13_FailFast == [][ChunkCallFailed => Len(calls') = Len(calls)]_vars

\* C13, amended: once a chunk's capability call has failed, the only
\* capability calls that still start are those of pool tasks submitted
\* before and still queued, taken by a worker while the pool exists; the
\* sequential loop sends no further chunk and no synthesis call is started.
C13_OnlyQueuedTasksStartAfterFailure ==
  [][ChunkCallFailed =>
       \/ Len(calls') = Len(calls)
       \/ /\ pc \in PoolStates
          /\ futures # <<>>
          /\ work_queue # <<>>
          /\ calls' = Append(calls, calls'[Len(calls')])
          /\ calls'[Len(calls')].kind = "chunk"
          /\ calls'[Len(calls')].idx = Head(work_queue)[1]
          /\ futures[Head(work_queue)[1]].state = "PENDING"]_vars

\* two workers, three chunks: the first chunk's call has failed, main has
\* seen the exception and waits at the end of the with block, and the third
\* task, which can only have started after one of the first two returned,
\* has its call in flight beside the second
C13_Witness ==
  /\ pc = "pool_exit"
  /\ pending_exc
  /\ llm[1].chunk_workers = 2
  /\ \E j \in ChunkCallsFor(1) : calls[j].outcome = "error"
  /\ \E j \in ChunkCallsFor(2) : calls[j].outcome = "inflight"
  /\ \E j \in ChunkCallsFor(3) : calls[j].outcome = "inflight"


\* from the creation of the slots to the sending of the synthesis request
DispatchStates == PoolStates \cup {"seq", "seq_wait", "synth"}

\* this step is the one store of the result tagged k: as_completed hands out
\* future k, which it had not handed out before, or the sequential loop is
\* at chunk k and moves past it
StoresResultOf(k) ==
  \/ /\ pc = "collect"
     /\ k \notin Range(yielded)
     /\ yielded' = Append(yielded, k)
     /\ futures[k].state = "FINISHED"
  \/ /\ pc = "seq_wait"
     /\ seq_idx = k
     /\ seq_idx' > k

\* a step of dispatch keeps the frame
DispatchStepKeepsFrame ==
  pc \in DispatchStates =>
       /\ chunks' = chunks
       /\ system_prompt' = system_prompt
       /\ user_prompt' = user_prompt
       /\ text' = text
       /\ llm' = llm
       /\ Len(partial_summaries') = Len(chunks)
       /\ Len(partial_summaries) = Len(chunks)
       /\ \A k \in 1..Len(chunks) :
            partial_summaries'[k] # partial_summaries[k] =>
              /\ StoresResultOf(k)
              /\ partial_summaries[k] = ""
              /\ \A i \in (1..Len(chunks)) \ {k} :
                   partial_summaries'[i] = partial_summaries[i]
              /\ \E j \in 1..Len(calls') :
                   /\ calls'[j].kind = "chunk"
                   /\ calls'[j].idx = k
                   /\ calls'[j].messages = RequestFor(k)
                   /\ partial_summaries'[k] =
                        ChatCompletionReturn(calls'[j].outcome, calls'[j].messages)

\* C14: during dispatch on N >= 2 chunks a slot changes only in the one
\* step that stores the result tagged with its own index, it was empty until
\* then and receives what that chunk's capability call returned, and no step
\* of dispatch changes the chunk list, the prompts, the text, the client or
\* the number of slots.
C14_DispatchFrame == [][DispatchStepKeepsFrame]_vars

\* three chunks in a pool: the second task's result was handed out first and
\* sits in the second slot, while the first and third slots are still empty
C14_Witness ==
  /\ pc = "collect"
  /\ Len(chunks) = 3
  /\ yielded = <<2>>
  /\ partial_summaries[2] # ""
  /\ partial_summaries[1] = ""
  /\ partial_summaries[3] = ""


\* _chunk as a function of the text and max_chars_per_chunk (lines 97-107):
\* the windows of the loop from index s on
RECURSIVE ChunkWindows(_, _, _)
ChunkWindows(t, max_chars, s) ==
  IF ChunkLoopGoesOn(s, Len(t))
  THEN LET end == ChunkEnd(Len(t), s, max_chars)
       IN <<PySlice(t, s, end)>> \o ChunkWindows(t, max_chars, NextStart(end))
  ELSE <<>>

ChunkList(t, max_chars) ==
  IF FitsOneChunk(t, max_chars) THEN <<t>> ELSE ChunkWindows(t, max_chars, 0)

\* what the capability returned for a request, read from the call log; a
\* run sends no request twice, so every run is one of a capability whose
\* reply is a function of the request
ObservedReply(messages) ==
  LET js == {j \in 1..Len(calls) :
               calls[j].messages = messages /\ calls[j].outcome \in {"text", "empty"}}
  IN IF js = {} THEN "<<no reply>>"
     ELSE ChatCompletionReturn(calls[CHOOSE j \in js : TRUE].outcome, messages)

\* the synthesis request as a function of the text, the prompts,
\* max_chars_per_chunk and the capability's replies alone: chunk k's reply
\* in place k
ReferenceSynthesisRequest ==
  LET cs == ChunkList(text, llm[1].max_chars_per_chunk)
      N == Len(cs)
  IN SynthesisMessages(system_prompt,
       [k \in 1..N |->
          PyOrStr(ObservedReply(ChunkMessages(system_prompt, user_prompt, k, cs[k], N)), "")])

\* C15: whenever a synthesis request has been sent, with chunk_workers = 1
\* or with any chunk_workers > 1 and in every completion order, it is the
\* request determined by the text, the prompts, max_chars_per_chunk and the
\* capability's replies, in which chunk_workers and the schedule do not
\* occur; a returned result is what the capability answered to that request.
C15_SynthesisIndependentOfWorkers ==
  \A j \in CallsOfKind("synthesis") :
    /\ CallsOfKind("synthesis") = {j}
    /\ j = Len(calls)
    /\ calls[j].messages = ReferenceSynthesisRequest
    /\ pc \in {"returned", "end_ok"} =>
         result = <<ObservedReply(ReferenceSynthesisRequest)>>

\* a pool of two workers on three chunks whose calls all answered with
\* text, and the synthesis request sent
C15_Witness ==
  /\ pc = "synth_wait"
  /\ llm[1].chunk_workers = 2
  /\ Len(chunks) = 3
  /\ \A k \in 1..3 : partial_summaries[k] = ServiceText(RequestFor(k))
  /\ calls[Len(calls)].kind = "synthesis"


\* C16: when the calling thread runs, free workers take queued tasks and
\* every capability call returns or fails, every summarize invocation, for
\* every chunk count N >= 1 and every chunk_workers W >= 1 of a client built
\* from positive settings, eventually returns a value or raises.
C16_SummarizeTerminates == (pc = "summarize") ~> (pc \in {"returned", "raised"})

\* summarize has returned a value from a pool of two workers that ran three
\* tasks, the third of them on a thread that had run another task before
C16_Witness ==
  /\ pc = "returned"
  /\ llm[1].chunk_workers = 2
  /\ Len(futures) = 3
  /\ \A k \in 1..3 : futures[k].state = "FINISHED"
  /\ work_queue = <<>>
  /\ running = {}


\* C17 as claimed: on every iteration of _chunk's loop, for every text and
\* every max_chars_per_chunk the constructor can leave in the client, the
\* index start strictly increases (so that the loop ends).
C17_StartStrictlyIncreases ==
  [][(pc = "chunk_loop" /\ chunks' # chunks) => start' > start]_vars

====
